---- MODULE Spec2Model ----
(***************************************************************************)
(* Model of the RabbitMQ provisioning service:                             *)
(*   src/provissioning_service.py   the Flask front end (POST /provision)  *)
(*   src/rabbitmq_provisioner.py    _make_api_call, the configure-rights   *)
(*                                  check and provision_user               *)
(* One behaviour is the handling of one request.  Texts (messages, names)  *)
(* are sequences of words, so that Python's substring test `x in message`  *)
(* is a contiguous-subsequence test that user-supplied words can satisfy.  *)
(***************************************************************************)
EXTENDS Integers, Sequences, FiniteSets, TLC

VARIABLES request, pc, stage, attempt, cur, log, hist, response,
          authorized, outcome, http_status, exc,
          logged,     \* the lines the last step wrote to the two loggers
          broker,     \* the user and permission records of the RabbitMQ broker
          run, first, \* the caller: which post of the request this is, and what
                      \* the first post left behind
          parked      \* the locals of the other request thread, when there is one

vars == <<request, pc, stage, attempt, cur, log, hist, response,
          authorized, outcome, http_status, exc, logged, broker, run, first, parked>>

-----------------------------------------------------------------------------
(* Bounds and program constants *)

\* longest permission list the broker answers with
MaxPermEntries == 2

\* max_retries of _make_api_call
max_retries == 3

-----------------------------------------------------------------------------
(* Values *)

None == [none |-> TRUE]

\* What one attempt of requests.request gets: an HTTP response with a status, or
\* a RequestException that is no HTTPError (timeout, DNS, refusal)
Statuses == {200, 401, 403, 404, 500}
Http(st) == [kind |-> "http", status |-> st]
ConnError == [kind |-> "conn", status |-> 0]

\* JSON values of a permission entry's configure field; strings are sequences of
\* characters
Absent == [t |-> "absent", s |-> <<>>, n |-> 0]
Null == [t |-> "null", s |-> <<>>, n |-> 0]
Str(s) == [t |-> "str", s |-> s, n |-> 0]
Num(n) == [t |-> "num", s |-> <<>>, n |-> n]
ConfigureValues ==
    {Absent, Null, Str(<<>>), Str(<<" ">>), Str(<<".", "*">>), Num(5), Num(0)}

\* an entry's vhost key may be missing
NoKey == "<no key>"
EntryVhosts == {NoKey, "prod", "Prod"}
Entries == [vhost : EntryVhosts, configure : ConfigureValues]

RECURSIVE SeqsUpTo(_, _)
SeqsUpTo(S, n) ==
    IF n = 0 THEN {<<>>}
    ELSE LET shorter == SeqsUpTo(S, n - 1)
         IN shorter \cup {Append(q, e) : q \in {x \in shorter : Len(x) = n - 1}, e \in S}

\* response bodies of GET /api/users/{u}/permissions
\* and the body of the answer to a PUT, which the code never reads
PutBody == [kind |-> "object", items |-> <<>>]
Bodies ==
    {[kind |-> k, items |-> <<>>] : k \in {"notjson", "null", "object"}}
    \cup {[kind |-> "list", items |-> q] : q \in SeqsUpTo(Entries, MaxPermEntries)}

-----------------------------------------------------------------------------
(* Requests: the JSON payload posted to /provision *)

TopKeys == {"requester_username", "requester_password", "target_host", "username",
            "password", "permissions", "new_queue_name", "tags"}
PermKeys == {"configure", "read", "write"}

BaseRequest ==
    [is_json |-> TRUE, keys |-> TopKeys, permkeys |-> PermKeys,
     requester_username |-> <<"dev">>, requester_password |-> "dev-secret",
     target_host |-> "prod", username |-> <<"svc">>, password |-> "svc-secret",
     configure |-> "^cfg", read |-> "^rd", write |-> "^wr",
     new_queue_name |-> "orders", tags |-> "monitoring"]

RequesterNames == {<<"dev">>, <<"MALFORMED", "REQUEST">>}
RequesterPasswords == {"dev-secret", "guess"}
NewUserNames == {<<"svc">>, <<"AUTHORIZATION", "FAILED">>, <<"AUTHENTICATION", "FAILED">>}

Requests ==
    {[BaseRequest EXCEPT !.requester_username = r] : r \in RequesterNames}
    \cup {[BaseRequest EXCEPT !.requester_password = p] : p \in RequesterPasswords}
    \cup {[BaseRequest EXCEPT !.username = u] : u \in NewUserNames}
    \cup {[BaseRequest EXCEPT !.configure = "", !.read = ".*", !.write = "^wr$"]}
    \cup {[BaseRequest EXCEPT !.keys = TopKeys \ {k}] : k \in TopKeys}
    \cup {[BaseRequest EXCEPT !.permkeys = PermKeys \ {k}] : k \in PermKeys}
    \cup {[BaseRequest EXCEPT !.keys = TopKeys \ {"username", "new_queue_name"}]}
    \cup {[BaseRequest EXCEPT !.is_json = FALSE]}

-----------------------------------------------------------------------------
(* Texts *)

Contains(msg, marker) ==
    \E i \in 0..(Len(msg) - Len(marker)) : SubSeq(msg, i + 1, i + Len(marker)) = marker

MALFORMED_REQUEST == <<"MALFORMED", "REQUEST">>
AUTHORIZATION_FAILED == <<"AUTHORIZATION", "FAILED">>

MalformedMsg(field) ==
    MALFORMED_REQUEST \o <<"Missing", "mandatory", "field", field>>

AuthorizationFailedMsg(requester, vhost) ==
    AUTHORIZATION_FAILED \o requester
    \o <<"is", "not", "permitted", "to", "provision", "resources", "on", "vhost", vhost>>

CreateUserFailedMsg(user) ==
    <<"Failed", "to", "create", "user">> \o user \o <<"Check", "logs", "for", "details">>

SetPermissionsFailedMsg(user, vhost) ==
    <<"Failed", "to", "set", "permissions", "for">> \o user
    \o <<"on", "vhost", vhost, "Cleanup", "needed">>

\* a variant of line 163 that leaves the queue out of the message
SuccessMsgWithoutQueue(user, vhost, queue) ==
    <<"SUCCESS", "User">> \o user \o <<"created", "with", "permissions", "on", "vhost", vhost>>

SuccessMsg(user, vhost, queue) ==
    <<"SUCCESS", "User">> \o user
    \o <<"created", "with", "permissions", "on", "vhost", vhost, "for", "queue", queue>>

-----------------------------------------------------------------------------
(* Log lines *)

\* json.dumps(request_data): every key the payload holds, with its value
JsonDumps(req) ==
    LET field(k, v) == IF k \in req.keys THEN <<k>> \o v ELSE <<>>
        perm(k, v) == IF k \in req.permkeys THEN <<k, v>> ELSE <<>>
    IN  field("requester_username", req.requester_username)
        \o field("requester_password", <<req.requester_password>>)
        \o field("target_host", <<req.target_host>>)
        \o field("username", req.username)
        \o field("password", <<req.password>>)
        \o field("permissions",
                 perm("configure", req.configure) \o perm("read", req.read)
                 \o perm("write", req.write))
        \o field("new_queue_name", <<req.new_queue_name>>)
        \o field("tags", <<req.tags>>)

\* provissioning_service.py line 30
ReceivedLine(req) == <<"Received", "provisioning", "request">> \o JsonDumps(req)

\* the f"{endpoint}" of lines 63, 129 and 147
EndpointText(endpoint) ==
    IF endpoint.api = "users/permissions" THEN <<"/api/users/">> \o endpoint.user \o <<"/permissions">>
    ELSE IF endpoint.api = "users" THEN <<"/api/users/">> \o endpoint.user
    ELSE <<"/api/permissions/", endpoint.vhost>> \o endpoint.user

\* line 40 (and line 43 after a 401 or 403) and line 48
HttpErrorLines(method, endpoint, a, st) ==
    << <<"HTTP", "Error", "on", method>> \o EndpointText(endpoint)
       \o <<"Attempt", ToString(a + 1), ToString(st), "Response">> >>
    \o (IF st \in {401, 403}
        THEN << <<"Authentication", "check", "failed", "Please", "verify",
                  "ADMIN_USERNAME", "and", "ADMIN_PASSWORD">> >>
        ELSE <<>>)

ConnectionErrorLine(method, endpoint, a) ==
    <<"Connection", "Error", "on", method>> \o EndpointText(endpoint)
    \o <<"Attempt", ToString(a + 1)>>

\* lines 118-119 and 60
ProvisioningLines(req) ==
    << <<"Provisioning", "Request", "for", "VHost", req.target_host>>,
       <<"Requester">> \o req.requester_username \o <<"New", "User">> \o req.username
           \o <<"Queue", req.new_queue_name>>,
       <<"Checking", "config", "rights", "for">> \o req.requester_username
           \o <<"on", "vhost", req.target_host>> >>

-----------------------------------------------------------------------------
(* _make_api_call *)

\* response.raise_for_status(): HTTPError for 4xx and 5xx
RaisesForStatus(st) == st >= 400 /\ st < 600

\* a variant of line 41 that stops on 401 alone
AdminRejectedOnly401(st) == st = 401

\* line 41: the admin user itself is rejected
AdminRejected(st) == st \in {401, 403}

\* a variant of lines 45 and 49 that is one off
LastAttemptOffByOne(a) == a = max_retries

\* lines 45 and 49: the attempt was the last of range(max_retries)
LastAttempt(a) == a = max_retries - 1

\* a variant of line 52 that multiplies where the code raises to a power
BackoffProduct(a) == 2 * a

\* line 52: sleep(2 ** attempt)
Backoff(a) == 2 ^ a

Req(a, r) == [type |-> "request", attempt |-> a, result |-> r, secs |-> 0]
Sleep(a, d) == [type |-> "sleep", attempt |-> a, result |-> ConnError, secs |-> d]

\* What a 2xx answer means for the broker's records: a PUT creates the record or
\* overwrites the one with the same key; a GET changes nothing
Put(b, call) ==
    IF call.method /= "PUT" THEN b
    ELSE IF call.endpoint.api = "users"
    THEN [b EXCEPT !.users =
            {u \in @ : u.name /= call.endpoint.user}
            \cup {[name |-> call.endpoint.user, password |-> call.json.password,
                   tags |-> call.json.tags]}]
    ELSE [b EXCEPT !.permissions =
            {q \in @ : ~(q.vhost = call.endpoint.vhost /\ q.user = call.endpoint.user)}
            \cup {[vhost |-> call.endpoint.vhost, user |-> call.endpoint.user,
                   configure |-> call.json.configure, write |-> call.json.write,
                   read |-> call.json.read]}]

\* the call begins: the loop variable is 0 and nothing has been sent
BeginCall(st, method, endpoint, json_data) ==
    /\ stage' = st
    /\ cur' = [method |-> method, endpoint |-> endpoint, json |-> json_data]
    /\ attempt' = 0
    /\ log' = <<>>
    /\ response' = None
    /\ pc' = "request"

\* a variant of lines 35-37 without the return: the loop goes on to its sleep
AttemptSucceedsWithoutReturn ==
    /\ pc = "request"
    /\ \E st \in Statuses, body \in Bodies :
        /\ ~RaisesForStatus(st)
        /\ stage /= "authz" => body = PutBody
        /\ log' = Append(log, Req(attempt, Http(st)))
        /\ response' = [none |-> FALSE, status |-> st, body |-> body]
    /\ pc' = IF LastAttempt(attempt) THEN "return" ELSE "sleep"
    /\ logged' = <<>>
    /\ UNCHANGED <<request, stage, attempt, cur, hist, authorized, outcome,
                   http_status, exc>>
    /\ broker' = Put(broker, cur)
    /\ UNCHANGED <<run, first, parked>>

\* lines 35-37: the attempt gets a status raise_for_status accepts
AttemptSucceedsWith(st, body) ==
    /\ pc = "request"
    /\ ~RaisesForStatus(st)
    /\ stage /= "authz" => body = PutBody
    /\ log' = Append(log, Req(attempt, Http(st)))
    /\ response' = [none |-> FALSE, status |-> st, body |-> body]
    /\ pc' = "return"
    /\ logged' = <<>>
    /\ UNCHANGED <<request, stage, attempt, cur, hist, authorized, outcome,
                   http_status, exc>>
    /\ broker' = Put(broker, cur)
    /\ UNCHANGED <<run, first, parked>>

AttemptSucceeds ==
    /\ pc = "request"
    /\ \E st \in Statuses, body \in Bodies : AttemptSucceedsWith(st, body)

\* lines 38-46: HTTPError
AttemptHttpError ==
    /\ pc = "request"
    /\ \E st \in Statuses :
        /\ RaisesForStatus(st)
        /\ log' = Append(log, Req(attempt, Http(st)))
        /\ logged' = HttpErrorLines(cur.method, cur.endpoint, attempt, st)
        /\ pc' = IF AdminRejected(st) \/ LastAttempt(attempt) THEN "return" ELSE "sleep"
    /\ response' = None
    /\ UNCHANGED <<request, stage, attempt, cur, hist, authorized, outcome,
                   http_status, exc>>
    /\ UNCHANGED <<broker, run, first, parked>>

\* lines 47-50: any other RequestException
AttemptConnectionError ==
    /\ pc = "request"
    /\ log' = Append(log, Req(attempt, ConnError))
    /\ pc' = IF LastAttempt(attempt) THEN "return" ELSE "sleep"
    /\ response' = None
    /\ logged' = <<ConnectionErrorLine(cur.method, cur.endpoint, attempt)>>
    /\ UNCHANGED <<request, stage, attempt, cur, hist, authorized, outcome,
                   http_status, exc>>
    /\ UNCHANGED <<broker, run, first, parked>>

\* line 52 and the next iteration of the for loop
BackoffSleep ==
    /\ pc = "sleep"
    /\ log' = Append(log, Sleep(attempt, Backoff(attempt)))
    /\ attempt' = attempt + 1
    /\ pc' = "request"
    /\ logged' = <<>>
    /\ UNCHANGED <<request, stage, cur, hist, response, authorized, outcome,
                   http_status, exc>>
    /\ UNCHANGED <<broker, run, first, parked>>

-----------------------------------------------------------------------------
(* check_developer_config_rights *)

Whitespace == {" "}

\* str.strip(): leading and trailing whitespace removed
RECURSIVE Strip(_)
Strip(s) ==
    IF s = <<>> THEN s
    ELSE IF Head(s) \in Whitespace THEN Strip(Tail(s))
    ELSE IF s[Len(s)] \in Whitespace THEN Strip(SubSeq(s, 1, Len(s) - 1))
    ELSE s

\* a variant of line 77 that compares the names with their case folded
Lower(name) == IF name = "Prod" THEN "prod" ELSE name
VhostMatchesIgnoringCase(p, target_vhost) == Lower(p.vhost) = Lower(target_vhost)

\* line 77: p['vhost'] == target_vhost, Python's str equality
VhostMatches(p, target_vhost) == p.vhost = target_vhost

\* line 77: next((p for p in permissions if p['vhost'] == target_vhost), None),
\* evaluated lazily from the front: the index of the first match, 0 for None, or
\* the KeyError of an entry without the key met before any match
RECURSIVE NextMatch(_, _, _)
NextMatch(items, target_vhost, i) ==
    IF i > Len(items) THEN [exc |-> "", idx |-> 0]
    ELSE IF items[i].vhost = NoKey THEN [exc |-> "KeyError", idx |-> 0]
    ELSE IF VhostMatches(items[i], target_vhost) THEN [exc |-> "", idx |-> i]
    ELSE NextMatch(items, target_vhost, i + 1)

\* line 86: config_regex and config_regex.strip(), for the values of
\* vhost_permission.get('configure'): "pass", "fail", or the AttributeError of
\* calling strip on a truthy value that is no string
ConfigCheck(config_regex) ==
    CASE config_regex.t \in {"absent", "null"} -> "fail"
      [] config_regex.t = "str" ->
            IF config_regex.s /= <<>> /\ Strip(config_regex.s) /= <<>> THEN "pass" ELSE "fail"
      [] config_regex.t = "num" ->
            IF config_regex.n = 0 THEN "fail" ELSE "AttributeError"

\* lines 66-91 on the value _make_api_call returned: "True", "False", or the name
\* of the exception that leaves the function.  A body that is no JSON raises the
\* JSONDecodeError that line 72 catches.
ConfigRights(resp, target_vhost) ==
    IF resp.none THEN "False"
    ELSE IF resp.body.kind = "notjson" THEN "False"
    ELSE IF resp.body.kind \in {"null", "object"} THEN "TypeError"
    ELSE LET m == NextMatch(resp.body.items, target_vhost, 1)
         IN IF m.exc /= "" THEN m.exc
            ELSE IF m.idx = 0 THEN "False"
            ELSE LET c == ConfigCheck(resp.body.items[m.idx].configure)
                 IN IF c = "pass" THEN "True" ELSE IF c = "fail" THEN "False" ELSE c

\* lines 67, 73, 80, 87 and 90: the one line the check writes before it returns
RightsLine(resp, req) ==
    IF resp.none
    THEN <<"Failed", "to", "retrieve", "permissions", "for">> \o req.requester_username
    ELSE IF resp.body.kind = "notjson"
    THEN <<"Failed", "to", "decode", "permissions", "response", "for">>
         \o req.requester_username
    ELSE IF NextMatch(resp.body.items, req.target_host, 1).idx = 0
    THEN <<"Developer">> \o req.requester_username
         \o <<"has", "no", "defined", "permissions", "on", "vhost", req.target_host>>
    ELSE IF ConfigRights(resp, req.target_host) = "True"
    THEN <<"Developer">> \o req.requester_username
         \o <<"is", "authorized", "Config", "regex">>
         \o resp.body.items[NextMatch(resp.body.items, req.target_host, 1).idx].configure.s
    ELSE <<"Developer">> \o req.requester_username
         \o <<"is", "NOT", "authorized", "Configure", "regex", "is", "empty", "or", "null">>

Summary ==
    [method |-> cur.method, endpoint |-> cur.endpoint, json |-> cur.json,
     ok |-> ~response.none,
     attempts |-> Cardinality({i \in DOMAIN log : log[i].type = "request"}),
     sleeps |-> Cardinality({i \in DOMAIN log : log[i].type = "sleep"})]

\* lines 66-91 return a bool to provision_user
CheckRightsReturns ==
    /\ pc = "return" /\ stage = "authz"
    /\ ConfigRights(response, request.target_host) \in {"True", "False"}
    /\ authorized' = ConfigRights(response, request.target_host)
    /\ hist' = Append(hist, Summary)
    /\ pc' = "checked"
    /\ logged' = <<RightsLine(response, request)>>
    /\ UNCHANGED <<request, stage, attempt, cur, log, response, outcome,
                   http_status, exc>>
    /\ UNCHANGED <<broker, run, first, parked>>

\* lines 71-86 raise: nothing in provision_user or the view catches it
CheckRightsRaises ==
    /\ pc = "return" /\ stage = "authz"
    /\ ConfigRights(response, request.target_host) \notin {"True", "False"}
    /\ exc' = ConfigRights(response, request.target_host)
    /\ hist' = Append(hist, Summary)
    /\ pc' = "raised"
    /\ logged' = <<>>
    /\ UNCHANGED <<request, stage, attempt, cur, log, response, authorized,
                   outcome, http_status>>
    /\ UNCHANGED <<broker, run, first, parked>>

-----------------------------------------------------------------------------
(* provision_user *)

\* lines 100-111: the subscripts in the order the code evaluates them
ExtractOrder ==
    <<"requester_username", "target_host", "username", "password", "permissions",
      "configure", "read", "write", "new_queue_name">>

HasKey(req, k) == IF k \in PermKeys THEN k \in req.permkeys ELSE k \in req.keys

\* the key of the first KeyError, "" when every subscript succeeds
RECURSIVE FirstKeyError(_, _)
FirstKeyError(req, i) ==
    IF i > Len(ExtractOrder) THEN ""
    ELSE IF ~HasKey(req, ExtractOrder[i]) THEN ExtractOrder[i]
    ELSE FirstKeyError(req, i + 1)

UserPermissionsEndpoint(user) == [api |-> "users/permissions", user |-> user, vhost |-> ""]
UserEndpoint(user) == [api |-> "users", user |-> user, vhost |-> ""]
PermissionsEndpoint(vhost, user) == [api |-> "permissions", user |-> user, vhost |-> vhost]

NoJson == [kind |-> "none"]

\* line 132: request_data.get("tags", "management")
UserTags(req) == IF "tags" \in req.keys THEN req.tags ELSE "management"

\* line 133
UserData(req) == [kind |-> "user", password |-> req.password, tags |-> UserTags(req)]

\* a variant of lines 149-153 that zeroes configure, as the comment of line 145 says
PermsDataConfigureZeroed(req) ==
    [kind |-> "permissions", configure |-> "", write |-> req.write, read |-> req.read]

\* lines 149-153
PermsData(req) ==
    [kind |-> "permissions", configure |-> req.configure, write |-> req.write,
     read |-> req.read]

Failure(message) == [none |-> FALSE, success |-> FALSE, message |-> message]
Success(message) == [none |-> FALSE, success |-> TRUE, message |-> message]

\* lines 112-115: a subscript raises KeyError
ProvisionMalformed ==
    /\ pc = "handle" /\ request.is_json
    /\ FirstKeyError(request, 1) /= ""
    /\ outcome' = Failure(MalformedMsg(FirstKeyError(request, 1)))
    /\ pc' = "returned"
    /\ logged' = <<ReceivedLine(request), MalformedMsg(FirstKeyError(request, 1))>>
    /\ UNCHANGED <<request, stage, attempt, cur, log, hist, response, authorized,
                   http_status, exc>>
    /\ UNCHANGED <<broker, run, first, parked>>

\* lines 99-122, 60-64: every field extracted, the rights check sends its GET
ProvisionChecksRights ==
    /\ pc = "handle" /\ request.is_json
    /\ FirstKeyError(request, 1) = ""
    /\ BeginCall("authz", "GET", UserPermissionsEndpoint(request.requester_username),
                 NoJson)
    /\ logged' = <<ReceivedLine(request)>> \o ProvisioningLines(request)
    /\ UNCHANGED <<request, hist, authorized, outcome, http_status, exc>>
    /\ UNCHANGED <<broker, run, first, parked>>

\* lines 122-125
ProvisionDenied ==
    /\ pc = "checked" /\ authorized = "False"
    /\ outcome' = Failure(AuthorizationFailedMsg(request.requester_username,
                                                 request.target_host))
    /\ response' = None
    /\ pc' = "returned"
    /\ logged' = <<AuthorizationFailedMsg(request.requester_username,
                                           request.target_host)>>
    /\ UNCHANGED <<request, stage, attempt, cur, log, hist, authorized,
                   http_status, exc>>
    /\ UNCHANGED <<broker, run, first, parked>>

\* a variant of lines 122, 127-134 that refuses a user the broker already has
ProvisionCreatesUserUnlessExists ==
    /\ pc = "checked" /\ authorized = "True"
    /\ IF \E u \in broker.users : u.name = request.username
       THEN /\ outcome' = Failure(<<"User">> \o request.username \o <<"already", "exists">>)
            /\ pc' = "returned"
            /\ UNCHANGED <<stage, cur, attempt, log, response>>
       ELSE /\ BeginCall("user", "PUT", UserEndpoint(request.username),
                         UserData(request))
            /\ UNCHANGED outcome
    /\ logged' = << <<"Creating", "user">> \o request.username >>
    /\ UNCHANGED <<request, hist, authorized, http_status, exc>>
    /\ UNCHANGED <<broker, run, first, parked>>

\* lines 122, 127-134
ProvisionCreatesUser ==
    /\ pc = "checked" /\ authorized = "True"
    /\ BeginCall("user", "PUT", UserEndpoint(request.username), UserData(request))
    /\ logged' = << <<"Creating", "user">> \o request.username >>
    /\ UNCHANGED <<request, hist, authorized, outcome, http_status, exc>>
    /\ UNCHANGED <<broker, run, first, parked>>

\* lines 136-137
CreateUserFailed ==
    /\ pc = "return" /\ stage = "user" /\ response.none
    /\ hist' = Append(hist, Summary)
    /\ outcome' = Failure(CreateUserFailedMsg(request.username))
    /\ pc' = "returned"
    /\ logged' = <<>>
    /\ UNCHANGED <<request, stage, attempt, cur, log, response, authorized,
                   http_status, exc>>
    /\ UNCHANGED <<broker, run, first, parked>>

\* lines 136, 142-155
ProvisionSetsPermissions ==
    /\ pc = "return" /\ stage = "user" /\ ~response.none
    /\ hist' = Append(hist, Summary)
    /\ BeginCall("perms", "PUT",
                 PermissionsEndpoint(request.target_host, request.username),
                 PermsData(request))
    /\ logged' = << <<"User">> \o request.username \o <<"created", "successfully">>,
                    <<"Setting", "permissions", "for">> \o request.username
                        \o <<"on", "vhost", request.target_host>> >>
    /\ UNCHANGED <<request, authorized, outcome, http_status, exc>>
    /\ UNCHANGED <<broker, run, first, parked>>

\* a variant of lines 157-159 that deletes the user it created before it returns
SetPermissionsFailedWithCleanup ==
    /\ pc = "return" /\ stage = "perms" /\ response.none
    /\ hist' = hist \o <<Summary,
                         [method |-> "DELETE", endpoint |-> UserEndpoint(request.username),
                          json |-> NoJson, ok |-> TRUE, attempts |-> 1, sleeps |-> 0]>>
    /\ outcome' = Failure(SetPermissionsFailedMsg(request.username, request.target_host))
    /\ pc' = "returned"
    /\ logged' = <<>>
    /\ UNCHANGED <<request, stage, attempt, cur, log, response, authorized,
                   http_status, exc>>
    /\ UNCHANGED <<broker, run, first, parked>>

\* lines 157-159
SetPermissionsFailed ==
    /\ pc = "return" /\ stage = "perms" /\ response.none
    /\ hist' = Append(hist, Summary)
    /\ outcome' = Failure(SetPermissionsFailedMsg(request.username, request.target_host))
    /\ pc' = "returned"
    /\ logged' = <<>>
    /\ UNCHANGED <<request, stage, attempt, cur, log, response, authorized,
                   http_status, exc>>
    /\ UNCHANGED <<broker, run, first, parked>>

\* lines 157, 161-163
ProvisionSucceeds ==
    /\ pc = "return" /\ stage = "perms" /\ ~response.none
    /\ hist' = Append(hist, Summary)
    /\ outcome' = Success(SuccessMsg(request.username, request.target_host,
                                     request.new_queue_name))
    /\ pc' = "returned"
    /\ logged' = << <<"Permissions", "set", "successfully", "Configure", "regex",
                       request.configure, "Read", "regex", request.read,
                       "Write", "regex", request.write>> >>
    /\ UNCHANGED <<request, stage, attempt, cur, log, response, authorized,
                   http_status, exc>>
    /\ UNCHANGED <<broker, run, first, parked>>

-----------------------------------------------------------------------------
(* handle_provisioning_request *)

\* lines 35-50: the status code for the pair provision_user returned
StatusCode(success, message) ==
    IF success THEN 201
    ELSE IF Contains(message, AUTHORIZATION_FAILED) THEN 403
    ELSE IF Contains(message, MALFORMED_REQUEST) THEN 400
    ELSE 500

\* lines 26-27
RejectNotJson ==
    /\ pc = "handle" /\ ~request.is_json
    /\ http_status' = 400
    /\ pc' = "responded"
    /\ logged' = <<>>
    /\ UNCHANGED <<request, stage, attempt, cur, log, hist, response, authorized,
                   outcome, exc>>
    /\ UNCHANGED <<broker, run, first, parked>>

\* lines 33-52
Respond ==
    /\ pc = "returned"
    /\ http_status' = StatusCode(outcome.success, outcome.message)
    /\ pc' = "responded"
    /\ logged' = << <<"Provisioning",
                       IF outcome.success THEN "SUCCESS" ELSE "FAILED">>
                     \o outcome.message >>
    /\ UNCHANGED <<request, stage, attempt, cur, log, hist, response, authorized,
                   outcome, exc>>
    /\ UNCHANGED <<broker, run, first, parked>>

-----------------------------------------------------------------------------
(* Specification *)

NoBroker == [users |-> {}, permissions |-> {}]
NoFirst == [none |-> TRUE, success |-> FALSE, calls |-> <<>>, broker |-> NoBroker]
NoThread == [none |-> TRUE]

\* a request thread enters handle_provisioning_request with the payload
InitRun(payloads) ==
    /\ request \in payloads
    /\ pc = "handle"
    /\ stage = "none"
    /\ attempt = 0
    /\ cur = [method |-> "", endpoint |-> UserEndpoint(<<>>), json |-> NoJson]
    /\ log = <<>>
    /\ hist = <<>>
    /\ response = None
    /\ authorized = "unset"
    /\ outcome = [none |-> TRUE, success |-> FALSE, message |-> <<>>]
    /\ http_status = 0
    /\ exc = ""
    /\ logged = <<>>
    /\ broker = NoBroker
    /\ run = 1
    /\ first = NoFirst

Init == InitRun(Requests) /\ parked = NoThread

Next ==
    \/ RejectNotJson
    \/ ProvisionMalformed
    \/ ProvisionChecksRights
    \/ AttemptSucceeds
    \/ AttemptHttpError
    \/ AttemptConnectionError
    \/ BackoffSleep
    \/ CheckRightsReturns
    \/ CheckRightsRaises
    \/ ProvisionDenied
    \/ ProvisionCreatesUser
    \/ CreateUserFailed
    \/ ProvisionSetsPermissions
    \/ SetPermissionsFailed
    \/ ProvisionSucceeds
    \/ Respond

Spec == Init /\ [][Next]_vars

-----------------------------------------------------------------------------
(* The same request posted twice in sequence *)

\* what a run asked of the broker: method, endpoint and body of each call
Calls(h) ==
    [i \in DOMAIN h |->
        [method |-> h[i].method, endpoint |-> h[i].endpoint, json |-> h[i].json]]

\* the view is entered afresh: every local of the previous run is gone
EnterHandler(payload) ==
    /\ request' = payload
    /\ pc' = "handle"
    /\ stage' = "none"
    /\ attempt' = 0
    /\ cur' = [method |-> "", endpoint |-> UserEndpoint(<<>>), json |-> NoJson]
    /\ log' = <<>>
    /\ hist' = <<>>
    /\ response' = None
    /\ authorized' = "unset"
    /\ outcome' = [none |-> TRUE, success |-> FALSE, message |-> <<>>]
    /\ http_status' = 0
    /\ exc' = ""

\* the caller, answered, posts the identical payload once more
Rerun ==
    /\ pc = "responded" /\ run = 1
    /\ run' = 2
    /\ first' = [none |-> FALSE, success |-> outcome.success, calls |-> Calls(hist),
                 broker |-> broker]
    /\ EnterHandler(request)
    /\ logged' = <<>>
    /\ UNCHANGED <<broker, parked>>

RerunRequests ==
    {BaseRequest,
     [BaseRequest EXCEPT !.keys = TopKeys \ {"username", "new_queue_name"}],
     [BaseRequest EXCEPT !.is_json = FALSE]}

InitTwice == InitRun(RerunRequests) /\ parked = NoThread

NextTwice == Next \/ Rerun

SpecTwice == InitTwice /\ [][NextTwice]_vars

-----------------------------------------------------------------------------
(* Two requests handled at once, each by its own thread of the server *)

\* the frame of the invocation that is running: its payload and every local
Frame ==
    [none |-> FALSE, request |-> request, pc |-> pc, stage |-> stage,
     attempt |-> attempt, cur |-> cur, log |-> log, hist |-> hist,
     response |-> response, authorized |-> authorized, outcome |-> outcome,
     http_status |-> http_status, exc |-> exc]

\* the frame of an invocation that has not taken a step
NewFrame(payload) ==
    [none |-> FALSE, request |-> payload, pc |-> "handle", stage |-> "none",
     attempt |-> 0,
     cur |-> [method |-> "", endpoint |-> UserEndpoint(<<>>), json |-> NoJson],
     log |-> <<>>, hist |-> <<>>, response |-> None, authorized |-> "unset",
     outcome |-> [none |-> TRUE, success |-> FALSE, message |-> <<>>],
     http_status |-> 0, exc |-> ""]

Resume(f) ==
    /\ request' = f.request
    /\ pc' = f.pc
    /\ stage' = f.stage
    /\ attempt' = f.attempt
    /\ cur' = f.cur
    /\ log' = f.log
    /\ hist' = f.hist
    /\ response' = f.response
    /\ authorized' = f.authorized
    /\ outcome' = f.outcome
    /\ http_status' = f.http_status
    /\ exc' = f.exc

\* a variant in which the loop counter of _make_api_call is one module-level
\* variable: the thread that resumes finds the value the other thread left
SwitchSharingAttempt ==
    /\ ~parked.none
    /\ parked' = Frame
    /\ Resume([parked EXCEPT !.attempt = attempt])
    /\ logged' = <<>>
    /\ UNCHANGED <<broker, run, first>>

\* the scheduler takes the processor from one thread and gives it to the other:
\* the payload and the locals of each invocation live in its own frame
Switch ==
    /\ ~parked.none
    /\ parked' = Frame
    /\ Resume(parked)
    /\ logged' = <<>>
    /\ UNCHANGED <<broker, run, first>>

OtherRequest ==
    [BaseRequest EXCEPT !.requester_username = <<"ops">>, !.username = <<"job">>,
                        !.password = "job-secret", !.target_host = "staging",
                        !.new_queue_name = "invoices"]

\* payloads of the one thread and of the other
ConcRequests == {BaseRequest, [BaseRequest EXCEPT !.is_json = FALSE]}
OtherRequests == {OtherRequest, [OtherRequest EXCEPT !.keys = TopKeys \ {"password"}]}

\* what the broker answers while two requests are handled
QuietResults == {Http(200), Http(403), Http(500), ConnError}
QuietBodies ==
    {[kind |-> "null", items |-> <<>>]}
    \cup {[kind |-> "list", items |-> <<[vhost |-> v, configure |-> Str(<<".", "*">>)]>>] :
            v \in {"prod", "staging"}}

\* most attempts one request sees fail while two are handled
MaxFailures == 1

RECURSIVE FailuresIn(_)
FailuresIn(h) ==
    IF h = <<>> THEN 0
    ELSE Head(h).attempts - (IF Head(h).ok THEN 1 ELSE 0) + FailuresIn(Tail(h))

QuietUpstream ==
    /\ \A i \in DOMAIN log : log[i].type = "request" => log[i].result \in QuietResults
    /\ response.none \/ response.body \in QuietBodies \cup {PutBody}
    /\ (stage = "authz" /\ ~response.none) => response.body \in QuietBodies
    /\ FailuresIn(hist)
         + Cardinality({i \in DOMAIN log : log[i].type = "request"
                                           /\ log[i].result /= Http(200)})
       <= MaxFailures

InitConc ==
    /\ InitRun(ConcRequests)
    /\ parked \in {NewFrame(p) : p \in OtherRequests}

QuietAttemptSucceeds ==
    /\ pc = "request"
    /\ \E body \in QuietBodies \cup {PutBody} : AttemptSucceedsWith(200, body)
    /\ QuietUpstream'

NextConc ==
    \/ QuietAttemptSucceeds
    \/ AttemptHttpError /\ QuietUpstream'
    \/ AttemptConnectionError /\ QuietUpstream'
    \/ BackoffSleep
    \/ CheckRightsReturns
    \/ CheckRightsRaises
    \/ ProvisionMalformed
    \/ ProvisionChecksRights
    \/ ProvisionDenied
    \/ ProvisionCreatesUser
    \/ CreateUserFailed
    \/ ProvisionSetsPermissions
    \/ SetPermissionsFailed
    \/ ProvisionSucceeds
    \/ RejectNotJson
    \/ Respond
    \/ Switch

SpecConc == InitConc /\ [][NextConc]_vars

-----------------------------------------------------------------------------
(* Vocabulary of the properties *)

\* What the broker's identity check (GET /api/whoami with the caller's own
\* credentials) would answer: 200 for the credentials it knows, 401 otherwise.
\* No action reads it: the code never sends that request.
WhoAmI(username, password) == IF password = "dev-secret" THEN 200 ELSE 401

\* the marker the specification gives to authentication failures; no message of
\* the code is built from it
AUTHENTICATION_FAILED == <<"AUTHENTICATION", "FAILED">>

Finished == pc \in {"returned", "responded"}

\* the run has sent, or is sending, a call of this method to this API
Issued(method, api) ==
    \/ \E i \in DOMAIN hist : hist[i].method = method /\ hist[i].endpoint.api = api
    \/ cur.method = method /\ cur.endpoint.api = api

NoRemoteCall == hist = <<>> /\ cur.method = "" /\ log = <<>>

NoMutation == ~Issued("PUT", "users") /\ ~Issued("PUT", "permissions")

\* the results of the attempts of the current (or last) call, in order
RECURSIVE ResultsOf(_)
ResultsOf(l) ==
    IF l = <<>> THEN <<>>
    ELSE IF Head(l).type = "request" THEN <<Head(l).result>> \o ResultsOf(Tail(l))
    ELSE ResultsOf(Tail(l))

RECURSIVE SleepsOf(_)
SleepsOf(l) ==
    IF l = <<>> THEN <<>>
    ELSE IF Head(l).type = "sleep" THEN <<Head(l).secs>> \o SleepsOf(Tail(l))
    ELSE SleepsOf(Tail(l))

-----------------------------------------------------------------------------
(* C1 *)

AuthenticationFails(req) ==
    /\ req.is_json
    /\ TopKeys \ {"tags"} \subseteq req.keys /\ req.permkeys = PermKeys
    /\ WhoAmI(req.requester_username, req.requester_password) /= 200

\* C1: when the broker rejects the requester's own username and password, the run
\* ends in a failure whose message carries AUTHENTICATION FAILED, and it sends no
\* permission lookup and no PUT.
C1_AuthenticationFailureStopsRun ==
    AuthenticationFails(request) =>
        /\ ~Issued("GET", "users/permissions")
        /\ NoMutation
        /\ Finished => ~outcome.success /\ Contains(outcome.message, AUTHENTICATION_FAILED)

-----------------------------------------------------------------------------
(* C2 *)

Blank(c) ==
    \/ c.t \in {"absent", "null"}
    \/ c.t = "str" /\ \A k \in DOMAIN c.s : c.s[k] \in Whitespace

\* no entry of the list is for the vhost, or the first that is has a blank configure
EntryAbsentOrBlank(items, vhost) ==
    \/ \A i \in DOMAIN items : items[i].vhost /= vhost
    \/ \E i \in DOMAIN items :
        /\ items[i].vhost = vhost
        /\ \A j \in 1..(i - 1) : items[j].vhost /= vhost
        /\ Blank(items[i].configure)

RightsCheckEnded == stage = "authz" /\ pc \in {"checked", "raised"}

\* C2: when the fetched permission list has no entry for the target vhost, or that
\* entry's configure is absent, null, empty or whitespace, the check answers false,
\* provision returns AUTHORIZATION FAILED and no PUT is sent.
C2_NoConfigureRightsIsDenied ==
    /\ ( /\ RightsCheckEnded
         /\ ~response.none /\ response.body.kind = "list"
         /\ EntryAbsentOrBlank(response.body.items, request.target_host) )
       => pc = "checked" /\ authorized = "False" /\ NoMutation
    /\ (Finished /\ authorized = "False")
       => /\ ~outcome.success
          /\ Contains(outcome.message, AUTHORIZATION_FAILED)
          /\ NoMutation

-----------------------------------------------------------------------------
(* C3 *)

MandatoryFields == (TopKeys \ {"tags"}) \cup PermKeys

MissingFields(req) ==
    {k \in MandatoryFields : IF k \in PermKeys THEN k \notin req.permkeys ELSE k \notin req.keys}

\* C3: a request that lacks a mandatory field (any field but tags) makes no remote
\* call and ends with a MALFORMED REQUEST message that names a missing field.
C3_MissingFieldIsMalformed ==
    (request.is_json /\ MissingFields(request) /= {}) =>
        /\ NoRemoteCall
        /\ Finished =>
            /\ ~outcome.success
            /\ Contains(outcome.message, MALFORMED_REQUEST)
            /\ \E k \in MissingFields(request) : Contains(outcome.message, <<k>>)

-----------------------------------------------------------------------------
(* C4 *)

ServerError == [kind |-> "http", status |-> 500]

ThreeServerErrors ==
    /\ stage = "user"
    /\ Len(ResultsOf(log)) >= 3
    /\ \A i \in 1..3 : ResultsOf(log)[i] = ServerError

\* C4: when the PUT of the user gets three 5xx answers in a row, the call has made
\* exactly three attempts with sleeps of 1 and then 2 between them and none after
\* the third, it returns None, and provision fails without a PUT of permissions.
C4_ThreeServerErrorsOnUserCreation ==
    ThreeServerErrors =>
        /\ ResultsOf(log) = <<ServerError, ServerError, ServerError>>
        /\ SleepsOf(log) = <<1, 2>>
        /\ log[2].type = "sleep" /\ log[4].type = "sleep" /\ Len(log) = 5
        /\ pc \in {"return", "returned", "responded"}
        /\ response.none
        /\ ~Issued("PUT", "permissions")
        /\ Finished =>
            /\ ~outcome.success
            /\ Len(hist) = 2 /\ hist[2].attempts = 3 /\ hist[2].sleeps = 2 /\ ~hist[2].ok

C4_Witness ==
    ThreeServerErrors /\ pc = "responded" /\ http_status = 500

-----------------------------------------------------------------------------
(* C5 *)

\* C5: an attempt answered 401 or 403 is the last event of its call, whatever its
\* number: no sleep and no attempt follow it, and the call returns None.
C5_AdminRejectionEndsCall ==
    \A i \in DOMAIN log :
        (log[i].type = "request" /\ log[i].result.kind = "http"
            /\ log[i].result.status \in {401, 403})
        => /\ i = Len(log)
           /\ pc \notin {"request", "sleep"}
           /\ response.none
           /\ Len(ResultsOf(log)) = log[i].attempt + 1

C5_Witness ==
    /\ pc = "return" /\ stage = "perms"
    /\ ResultsOf(log) = <<[kind |-> "http", status |-> 403]>>
    /\ SleepsOf(log) = <<>>

-----------------------------------------------------------------------------
(* C6 *)

PermissionStageFailed == stage = "perms" /\ response.none /\ Finished

StartsWith(msg, prefix) == Len(msg) >= Len(prefix) /\ SubSeq(msg, 1, Len(prefix)) = prefix

\* C6: when the PUT of permissions fails after the PUT of the user succeeded,
\* provision returns a failure whose message is the permission-stage text for the
\* user and vhost, and the failed PUT is the last call of the run: no DELETE or
\* other call follows it.
C6_PermissionFailureIsNotRolledBack ==
    PermissionStageFailed =>
        /\ ~outcome.success
        /\ StartsWith(outcome.message, <<"Failed", "to", "set", "permissions", "for">>)
        /\ Contains(outcome.message, request.username)
        /\ Contains(outcome.message, <<"vhost", request.target_host>>)
        /\ Len(hist) = 3
        /\ hist[2].method = "PUT" /\ hist[2].endpoint = UserEndpoint(request.username)
        /\ hist[2].ok
        /\ hist[3].method = "PUT" /\ hist[3].endpoint.api = "permissions" /\ ~hist[3].ok
        /\ \A i \in DOMAIN hist : hist[i].method /= "DELETE"
        /\ cur.method = "PUT" /\ cur.endpoint.api = "permissions"

C6_Witness ==
    /\ PermissionStageFailed /\ pc = "responded"
    /\ hist[2].ok /\ hist[3].attempts = 3

-----------------------------------------------------------------------------
(* C7 *)

\* the body is not the list of {vhost, configure, ...} objects the check expects
UnexpectedStructure(body) ==
    \/ body.kind \in {"notjson", "null", "object"}
    \/ body.kind = "list" /\ \E i \in DOMAIN body.items :
            \/ body.items[i].vhost = NoKey
            \/ body.items[i].configure.t = "num"

\* C7: when the permission call returned None, or its body is not the expected
\* structure, the rights check returns false: it neither raises nor returns true.
C7_RightsCheckFailsClosed ==
    (RightsCheckEnded /\ (response.none \/ UnexpectedStructure(response.body)))
        => pc = "checked" /\ authorized = "False"

-----------------------------------------------------------------------------
(* C8 *)

BothPutsSucceeded == stage = "perms" /\ ~response.none /\ Finished

\* C8: when the requester is authorized and both PUTs succeed, provision returns
\* success with a message naming the new user, the vhost and the queue, and the
\* run's calls are the permission GET and the two PUTs: nothing creates the queue.
C8_SuccessNamesUserVhostQueue ==
    /\ BothPutsSucceeded =>
        /\ outcome.success
        /\ Contains(outcome.message, request.username)
        /\ Contains(outcome.message, <<request.target_host>>)
        /\ Contains(outcome.message, <<request.new_queue_name>>)
        /\ Len(hist) = 3
        /\ hist[1].endpoint.api = "users/permissions"
        /\ hist[2].endpoint.api = "users"
        /\ hist[3].endpoint.api = "permissions"
        /\ \A i \in DOMAIN hist : hist[i].ok
    /\ (Finished /\ outcome.success) => BothPutsSucceeded /\ authorized = "True"

C8_Witness ==
    /\ BothPutsSucceeded /\ pc = "responded" /\ http_status = 201
    /\ request.username = <<"svc">>

-----------------------------------------------------------------------------
(* C9 *)

NonBlankString(c) == c.t = "str" /\ \E k \in DOMAIN c.s : c.s[k] \notin Whitespace

\* C9: the rights check answers true exactly when the first entry whose vhost is
\* equal, character for character, to the target vhost has a non-blank configure;
\* entries for other spellings and later entries for the same vhost do not count.
C9_FirstExactVhostEntryDecides ==
    (pc = "checked" /\ ~response.none /\ response.body.kind = "list") =>
        LET items == response.body.items
            target == request.target_host
        IN  authorized = "True" <=>
                \E i \in DOMAIN items :
                    /\ items[i].vhost = target
                    /\ \A j \in 1..(i - 1) : items[j].vhost /= target
                    /\ NonBlankString(items[i].configure)

C9_Witness ==
    /\ pc = "checked" /\ authorized = "False"
    /\ request.target_host = "prod"
    /\ response.body.kind = "list"
    /\ response.body.items =
        << [vhost |-> "prod", configure |-> Str(<<>>)],
           [vhost |-> "prod", configure |-> Str(<<".", "*">>)] >>

-----------------------------------------------------------------------------
(* C10 *)

Markers == {MALFORMED_REQUEST, AUTHORIZATION_FAILED, AUTHENTICATION_FAILED}
MarkersIn(msg) == {m \in Markers : Contains(msg, m)}

\* C10: the status of a failed outcome follows the marker in its message:
\* MALFORMED REQUEST gives 400, AUTHORIZATION FAILED gives 403, AUTHENTICATION
\* FAILED gives 401 or 403, and any other failure gives 500.  (Stated for the
\* messages that carry at most one marker, where the four cases do not overlap.)
C10_StatusFollowsMarker ==
    ( /\ pc = "responded" /\ ~outcome.none /\ ~outcome.success
      /\ Cardinality(MarkersIn(outcome.message)) <= 1 ) =>
        /\ Contains(outcome.message, MALFORMED_REQUEST) => http_status = 400
        /\ Contains(outcome.message, AUTHORIZATION_FAILED) => http_status = 403
        /\ Contains(outcome.message, AUTHENTICATION_FAILED) => http_status \in {401, 403}
        /\ MarkersIn(outcome.message) = {} => http_status = 500

-----------------------------------------------------------------------------
(* C11 *)

\* the call the run ended on was cut short by a 401 or 403 for the admin user
AdminWasRejected ==
    /\ log /= <<>>
    /\ log[Len(log)].type = "request"
    /\ log[Len(log)].result.kind = "http"
    /\ log[Len(log)].result.status \in {401, 403}

\* C11: when upstream rejects the administrative credentials in any stage, the
\* outcome is of a kind of its own: its message is not the AUTHORIZATION FAILED of
\* a requester without rights and not the text of a failed user creation or
\* permission assignment.
C11_AdminRejectionIsReportedApart ==
    (Finished /\ AdminWasRejected) =>
        /\ ~outcome.success
        /\ ~Contains(outcome.message, AUTHORIZATION_FAILED)
        /\ ~StartsWith(outcome.message, <<"Failed", "to", "create", "user">>)
        /\ ~StartsWith(outcome.message, <<"Failed", "to", "set", "permissions">>)

-----------------------------------------------------------------------------
(* C13 *)

-----------------------------------------------------------------------------
(* C15 *)

Retryable(r) ==
    \/ r.kind = "conn"
    \/ r.kind = "http" /\ r.status >= 400 /\ r.status < 600 /\ r.status \notin {401, 403}

OnlyRetryableResults ==
    log /= <<>> /\ \A i \in DOMAIN ResultsOf(log) : Retryable(ResultsOf(log)[i])

IsPrefix(p, q) == Len(p) <= Len(q) /\ \A i \in DOMAIN p : p[i] = q[i]

\* C15: a call that has met retryable HTTP errors and connection failures only, in
\* any mix, has made at most 3 attempts, has slept 1 after the first and 2 after
\* the second and not after the third, and has returned (None) exactly when three
\* attempts have failed.
C15_RetryBudgetAndBackoff ==
    OnlyRetryableResults =>
        /\ Len(ResultsOf(log)) <= 3
        /\ IsPrefix(SleepsOf(log), <<1, 2>>)
        /\ \A i \in DOMAIN log : log[i].type = IF i % 2 = 1 THEN "request" ELSE "sleep"
        /\ pc \in {"sleep", "request"} <=> Len(ResultsOf(log)) < 3
        /\ pc = "sleep" => Len(SleepsOf(log)) = Len(ResultsOf(log)) - 1
        /\ pc \notin {"sleep", "request"} =>
            /\ response.none
            /\ Len(log) = 5

C15_Witness ==
    /\ pc = "return" /\ stage = "perms"
    /\ ResultsOf(log) = <<Http(404), ConnError, Http(500)>>
    /\ SleepsOf(log) = <<1, 2>>

-----------------------------------------------------------------------------
(* C16 *)

\* the APIs the run has called, in order, the call under way included
CallsSoFar ==
    [i \in DOMAIN hist |-> hist[i].endpoint.api]
    \o (IF pc \in {"request", "sleep", "return"} THEN <<cur.endpoint.api>> ELSE <<>>)

\* C16: the stages run in the order authenticate, authorize, create user, set
\* permissions, each at most once and only after every earlier one succeeded: the
\* permission GET is sent only for a requester the broker authenticates, the calls
\* are a prefix of (GET permissions, PUT user, PUT permissions), and the PUT of
\* permissions follows a successful PUT of the same user.
C16_StagesInOrder ==
    /\ Issued("GET", "users/permissions") =>
            WhoAmI(request.requester_username, request.requester_password) = 200
    /\ IsPrefix(CallsSoFar, <<"users/permissions", "users", "permissions">>)
    /\ Issued("PUT", "users") => authorized = "True" /\ hist[1].ok
    /\ Issued("PUT", "permissions") =>
        /\ hist[2].method = "PUT" /\ hist[2].endpoint = UserEndpoint(request.username)
        /\ hist[2].ok

-----------------------------------------------------------------------------
(* C17 *)

\* C17: an attempt answered 2xx is the last event of its call: the call returns
\* that response at once, after sleeps of 1, or 1 then 2, when one or two
\* retryable failures came before it.
C17_FirstSuccessEndsCall ==
    \A i \in DOMAIN log :
        (log[i].type = "request" /\ log[i].result.kind = "http"
            /\ log[i].result.status >= 200 /\ log[i].result.status < 300)
        => /\ i = Len(log)
           /\ pc \notin {"request", "sleep"}
           /\ pc = "return" => ~response.none /\ response.status = log[i].result.status
           /\ SleepsOf(log) = SubSeq(<<1, 2>>, 1, log[i].attempt)
           /\ Len(ResultsOf(log)) = log[i].attempt + 1
           /\ \A j \in 1..log[i].attempt : Retryable(ResultsOf(log)[j])

C17_Witness ==
    /\ pc = "return" /\ stage = "user" /\ ~response.none
    /\ ResultsOf(log) = <<ConnError, Http(500), Http(200)>>
    /\ SleepsOf(log) = <<1, 2>>

-----------------------------------------------------------------------------
(* C18 *)

\* C18: a run that failed in the user-creation or permission stage is answered
\* with 500, whatever words the request's fields put into the message.
C18_MutationFailureIsInternalError ==
    (pc = "responded" /\ stage \in {"user", "perms"} /\ response.none)
        => http_status = 500

-----------------------------------------------------------------------------
(* C19 *)

RECURSIVE Sum(_)
Sum(q) == IF q = <<>> THEN 0 ELSE Head(q) + Sum(Tail(q))

AttemptsSoFar ==
    Sum([i \in DOMAIN hist |-> hist[i].attempts])
    + (IF pc \in {"request", "sleep", "return"} THEN Len(ResultsOf(log)) ELSE 0)

\* C19: every run ends with one outcome whatever upstream does: where nothing more
\* can happen the front end has answered with the pair provision returned; and the
\* run makes at most 3 calls and 9 attempts, with at most 3 of backoff per call.
C19_RunEndsWithOneOutcome ==
    /\ Len(CallsSoFar) <= 3
    /\ AttemptsSoFar <= 9
    /\ Sum(SleepsOf(log)) <= 3
    /\ ~ENABLED Next => pc = "responded" /\ (request.is_json => ~outcome.none)

-----------------------------------------------------------------------------
(* C12 *)

\* the values of the two password fields of the payload
Secrets(req) ==
    (IF "requester_password" \in req.keys THEN {req.requester_password} ELSE {})
    \cup (IF "password" \in req.keys THEN {req.password} ELSE {})

Leaks(text) == \E i \in DOMAIN text : text[i] \in Secrets(request)

\* C12: no log line and no outcome message holds the requester's password or the
\* new user's password.
C12_NoPasswordInMessagesOrLogs ==
    /\ \A i \in DOMAIN logged : ~Leaks(logged[i])
    /\ ~Leaks(outcome.message)

-----------------------------------------------------------------------------
(* C14 *)

CallsUnderWay ==
    Calls(hist)
    \o (IF pc \in {"request", "sleep", "return"} THEN <<cur>> ELSE <<>>)

SecondRunAfterSuccess == run = 2 /\ ~first.none /\ first.success

\* C14: posting the identical request again after a success sends the same calls
\* in the same order, never fails for a reason other than a denied check or a call
\* that upstream failed, succeeds when upstream accepts both PUTs, and leaves the
\* broker's user and permission records as the first run left them.
C14_SecondRunRepeatsFirst ==
    SecondRunAfterSuccess =>
        /\ IsPrefix(CallsUnderWay, first.calls)
        /\ broker = first.broker
        /\ (Finished /\ ~outcome.success) =>
                \/ authorized = "False"
                \/ stage \in {"user", "perms"} /\ response.none
        /\ (Finished /\ Len(hist) = 3 /\ \A i \in DOMAIN hist : hist[i].ok) =>
                outcome.success /\ Calls(hist) = first.calls

C14_Witness ==
    /\ SecondRunAfterSuccess /\ pc = "responded" /\ outcome.success
    /\ \E u \in broker.users : u.name = request.username

-----------------------------------------------------------------------------
(* C20 *)

InCall(f) == f.pc \in {"request", "sleep", "return"}

\* the calls provision_user makes for a payload, in order
PlannedCalls(req) ==
    << [method |-> "GET", endpoint |-> UserPermissionsEndpoint(req.requester_username),
        json |-> NoJson],
       [method |-> "PUT", endpoint |-> UserEndpoint(req.username),
        json |-> UserData(req)],
       [method |-> "PUT", endpoint |-> PermissionsEndpoint(req.target_host, req.username),
        json |-> PermsData(req)] >>

\* the attempt counter and the waits of a frame follow from the answers its own
\* call has had
OwnCounterAndWaits(f) ==
    InCall(f) =>
        /\ f.attempt = Len(SleepsOf(f.log))
        /\ IsPrefix(SleepsOf(f.log), <<1, 2>>)
        /\ Len(ResultsOf(f.log)) = f.attempt + (IF f.pc = "request" THEN 0 ELSE 1)
        /\ \A i \in DOMAIN f.log :
                f.log[i].attempt = Len(SleepsOf(SubSeq(f.log, 1, i - 1)))
        /\ \A i \in 1..Len(ResultsOf(f.log)) :
                i < Len(ResultsOf(f.log)) \/ f.pc = "sleep" =>
                    /\ ResultsOf(f.log)[i] \notin {Http(200), Http(401), Http(403)}

\* the calls of a frame are the ones its own payload asks for
OwnCalls(f) ==
    IsPrefix(Calls(f.hist) \o (IF InCall(f) THEN <<f.cur>> ELSE <<>>),
             PlannedCalls(f.request))

\* the pair a frame returns follows from its own payload and the answers it had
OwnOutcome(f) ==
    (f.pc \in {"returned", "responded"} /\ f.request.is_json) =>
        f.outcome =
            IF FirstKeyError(f.request, 1) /= ""
            THEN Failure(MalformedMsg(FirstKeyError(f.request, 1)))
            ELSE IF f.authorized = "False"
            THEN Failure(AuthorizationFailedMsg(f.request.requester_username,
                                                f.request.target_host))
            ELSE IF ~f.hist[2].ok
            THEN Failure(CreateUserFailedMsg(f.request.username))
            ELSE IF ~f.hist[3].ok
            THEN Failure(SetPermissionsFailedMsg(f.request.username,
                                                 f.request.target_host))
            ELSE Success(SuccessMsg(f.request.username, f.request.target_host,
                                    f.request.new_queue_name))

Independent(f) == OwnCounterAndWaits(f) /\ OwnCalls(f) /\ OwnOutcome(f)

Ended(f) == f.pc \in {"responded", "raised"}

\* C20: of two runs handled at once, each one's attempt counter, waits, calls and
\* outcome follow from its own payload and the answers it had; a step of one run
\* writes nothing of the other's frame and a switch hands each frame back as it
\* was left; and while one run waits in backoff the other can take its next step.
C20_ConcurrentRunsIndependent ==
    /\ [](~parked.none =>
            /\ Independent(Frame)
            /\ Independent(parked)
            /\ (parked.pc = "sleep" /\ ~Ended(Frame)) => ENABLED Next)
    /\ [][~parked.none =>
            \/ parked' = parked
            \/ parked' = Frame /\ Frame' = parked]_vars

C20_Witness ==
    /\ ~parked.none
    /\ parked.pc = "sleep" /\ parked.attempt = 0 /\ parked.stage = "authz"
    /\ pc = "request" /\ attempt = 1 /\ stage = "perms"
    /\ request.username /= parked.request.username
    /\ \E u \in broker.users : u.name = request.username

====
